---- MODULE Spec2Model ----
(***************************************************************************)
(* Model of the stranger-chat server (matchmaking, pairing tables, block   *)
(* list, signalling relay, text moderation).  One action per socket.io     *)
(* handler of the server; every handler runs to completion on the Node     *)
(* event loop, so an action is one whole handler.                          *)
(***************************************************************************)
EXTENDS Integers, Sequences, FiniteSets, TLC

\* ------------------------------------------------------------------ bounds
NumSessions == 3
\* findChat requests that pass validation, over a whole run
MaxFindChats == 4
\* waiting users handed to findBestMatch when it is checked on its own
MaxQueue == 3
\* pieces a message is put together from when filterMessage is checked on its own
MaxPieces == 3
\* events on their way to one socket, when deliveries are followed
MaxInFlight == 2

Sessions == 1..NumSessions

\* Map.get of an absent key, a missing target field, "no match"
None == 0

\* ------------------------------------------------------------ input domains
\* the preferences the sessions of the model may declare: tag lists that
\* share two, one or no tags, two languages, two age groups
PrefValues == {
    [tags |-> <<"Art", "Music">>, language |-> "English", ageGroup |-> "18-24",
     agreeToGuidelines |-> TRUE],
    [tags |-> <<"Art">>, language |-> "English", ageGroup |-> "25-34",
     agreeToGuidelines |-> TRUE],
    [tags |-> <<"Music">>, language |-> "English", ageGroup |-> "18-24",
     agreeToGuidelines |-> TRUE],
    [tags |-> <<"Art">>, language |-> "Spanish", ageGroup |-> "18-24",
     agreeToGuidelines |-> TRUE]}

\* A findChat payload's `preferences` as it arrives: JavaScript values carry
\* their run-time type, which validatePreferences inspects.
WellTyped == [tags |-> "array", language |-> "string", ageGroup |-> "string",
              agreeToGuidelines |-> "boolean"]

SomeValue == CHOOSE v \in PrefValues : TRUE

ValidPayloads == {[falsy |-> FALSE, types |-> WellTyped, value |-> v] : v \in PrefValues}

MalformedPayloads ==
    {[falsy |-> TRUE, types |-> WellTyped, value |-> SomeValue]} \cup
    {[falsy |-> FALSE, types |-> [WellTyped EXCEPT ![f] = "undefined"], value |-> SomeValue] :
        f \in {"tags", "language", "ageGroup", "agreeToGuidelines"}}

Payloads == ValidPayloads \cup MalformedPayloads

RelayRunPayloads ==
    {p \in ValidPayloads : p.value.language = "English" /\ Len(p.value.tags) = 1}
        \cup {p \in MalformedPayloads : p.falsy}

\* ------------------------------------------------------------------- state
VARIABLES
    conn,            \* per socket: "new" (never connected), "live", "closed"
    waitingUsers,    \* WaitingUser[]
    chatPairs,       \* Map<string,string>, None = absent key
    videoChatPairs,  \* Map<string,string>, None = absent key
    reportedUsers,   \* Set<string>
    found,           \* number of findChat requests that passed validation
    reportedLive,    \* history: the sessions a partner has reported, until they disconnect
    last,            \* the event the server processed last, with what it read
    out,             \* the events that handler delivered, in emission order
    logged,          \* the records that handler wrote to the console
    inbox,           \* per followed socket: the events emitted to it and not yet received
    seen,            \* per followed socket: what it has been told about each other socket
    recv,            \* the event a client received last
    status,          \* per followed socket: the `status` state of its Chat component
    peers,           \* per video client: the refs and the peer connection of VideoChat
    signal           \* per video client: the signalling events relayed to it, not yet handled

vars == <<conn, waitingUsers, chatPairs, videoChatPairs, reportedUsers, found,
          reportedLive, last, out, logged, inbox, seen, recv, status,
          peers, signal>>

shared == <<waitingUsers, chatPairs, videoChatPairs, reportedUsers>>

\* ----------------------------------------------------------------- helpers
Elems(seq) == {seq[i] : i \in 1..Len(seq)}

Reverse(seq) == [i \in 1..Len(seq) |-> seq[Len(seq) + 1 - i]]

\* waitingUsers.findIndex(u => u.socketId === id), 1-based, 0 when absent
findIndex(queue, id) ==
    IF \E i \in 1..Len(queue) : queue[i].socketId = id
    THEN CHOOSE i \in 1..Len(queue) :
            /\ queue[i].socketId = id
            /\ \A j \in 1..(i - 1) : queue[j].socketId # id
    ELSE 0

\* a splice that removes nothing
keepAll(queue, id) == queue

\* waitingUsers.splice(index, 1) guarded by index !== -1
spliceOut(queue, id) ==
    LET i == findIndex(queue, id)
    IN IF i = 0 THEN queue
       ELSE SubSeq(queue, 1, i - 1) \o SubSeq(queue, i + 1, Len(queue))

\* io.to(room).emit(...) / socket.emit(...): every socket is in the room named
\* by its own id while it is connected, so an event reaches `to` iff `to` is live.
Emit(to, ev, from, payload) ==
    IF to \in Sessions /\ conn[to] = "live"
    THEN <<[to |-> to, ev |-> ev, from |-> from, payload |-> payload]>>
    ELSE <<>>

\* ------------------------------------------------------------- matchmaking
\* findCommonTags without the includes test
allOfFirstTags(user1Tags, user2Tags) == user1Tags

findCommonTags(user1Tags, user2Tags) ==
    SelectSeq(user1Tags, LAMBDA tag : tag \in Elems(user2Tags))

\* validatePreferences without the Array.isArray test
validateWithoutArrayTest(preferences) ==
    /\ ~preferences.falsy
    /\ preferences.types.language = "string"
    /\ preferences.types.ageGroup = "string"
    /\ preferences.types.agreeToGuidelines = "boolean"

validatePreferences(preferences) ==
    /\ ~preferences.falsy
    /\ preferences.types.tags = "array"
    /\ preferences.types.language = "string"
    /\ preferences.types.ageGroup = "string"
    /\ preferences.types.agreeToGuidelines = "boolean"

\* the comparator handed to sort
Compare(a, b) ==
    IF Len(b.commonTags) # Len(a.commonTags)
    THEN Len(b.commonTags) - Len(a.commonTags)
    ELSE IF b.ageGroupMatch THEN 1 ELSE -1

\* Array.prototype.sort as Node's V8 runs it on an array shorter than its
\* minimum run length: find the leading run, reverse it if it descends, then
\* binary-insert the remaining elements.
RECURSIVE RunEnd(_, _, _)
RunEnd(arr, idx, desc) ==
    IF idx > Len(arr) THEN Len(arr)
    ELSE LET order == Compare(arr[idx], arr[idx - 1])
         IN IF (desc /\ order >= 0) \/ (~desc /\ order < 0)
            THEN idx - 1
            ELSE RunEnd(arr, idx + 1, desc)

CountAndMakeRun(arr) ==
    IF Len(arr) < 2 THEN [run |-> Len(arr), arr |-> arr]
    ELSE LET desc == Compare(arr[2], arr[1]) < 0
             n == RunEnd(arr, 3, desc)
         IN [run |-> n,
             arr |-> IF desc
                     THEN Reverse(SubSeq(arr, 1, n)) \o SubSeq(arr, n + 1, Len(arr))
                     ELSE arr]

\* left, right are 0-based as in the engine; arr is 1-based
RECURSIVE BinarySearch(_, _, _, _)
BinarySearch(arr, pivot, left, right) ==
    IF left >= right THEN left
    ELSE LET mid == left + ((right - left) \div 2)
         IN IF Compare(pivot, arr[mid + 1]) < 0
            THEN BinarySearch(arr, pivot, left, mid)
            ELSE BinarySearch(arr, pivot, mid + 1, right)

RECURSIVE BinaryInsertionSort(_, _)
BinaryInsertionSort(arr, start) ==
    IF start >= Len(arr) THEN arr
    ELSE LET pivot == arr[start + 1]
             left == BinarySearch(arr, pivot, 0, start)
             moved == SubSeq(arr, 1, left) \o <<pivot>> \o SubSeq(arr, left + 1, start)
                        \o SubSeq(arr, start + 2, Len(arr))
         IN BinaryInsertionSort(moved, start + 1)

Sort(arr) ==
    IF Len(arr) < 2 THEN arr
    ELSE LET r == CountAndMakeRun(arr)
         IN BinaryInsertionSort(r.arr, r.run)

\* the first filter without the language test
CandidatesAnyLanguage(user, queue, reported) ==
    SelectSeq(queue, LAMBDA waitingUser :
        /\ waitingUser.socketId # user.socketId
        /\ waitingUser.socketId \notin reported)

\* the first filter without the reportedUsers test
CandidatesWithReported(user, queue, reported) ==
    SelectSeq(queue, LAMBDA waitingUser :
        /\ waitingUser.socketId # user.socketId
        /\ waitingUser.preferences.language = user.preferences.language)

\* the first filter refusing every candidate to a reported requester
CandidatesUnlessReported(user, queue, reported) ==
    SelectSeq(queue, LAMBDA waitingUser :
        /\ user.socketId \notin reported
        /\ waitingUser.socketId # user.socketId
        /\ waitingUser.socketId \notin reported
        /\ waitingUser.preferences.language = user.preferences.language)

\* the first filter with an age group test added
CandidatesSameAge(user, queue, reported) ==
    SelectSeq(queue, LAMBDA waitingUser :
        /\ waitingUser.socketId # user.socketId
        /\ waitingUser.socketId \notin reported
        /\ waitingUser.preferences.language = user.preferences.language
        /\ waitingUser.preferences.ageGroup = user.preferences.ageGroup)

Candidates(user, queue, reported) ==
    SelectSeq(queue, LAMBDA waitingUser :
        /\ waitingUser.socketId # user.socketId
        /\ waitingUser.socketId \notin reported
        /\ waitingUser.preferences.language = user.preferences.language)

Scored(user, cands) ==
    [i \in 1..Len(cands) |->
        [user |-> cands[i],
         commonTags |-> findCommonTags(user.preferences.tags, cands[i].preferences.tags),
         ageGroupMatch |-> cands[i].preferences.ageGroup = user.preferences.ageGroup]]

\* the sorted `matches` array of findBestMatch
Matches(user, queue, reported) ==
    Sort(SelectSeq(Scored(user, Candidates(user, queue, reported)),
                LAMBDA match : Len(match.commonTags) > 0))

NoMatch == [socketId |-> None]

findBestMatch(user, queue, reported) ==
    IF Len(queue) = 0 THEN NoMatch
    ELSE LET matches == Matches(user, queue, reported)
         IN IF Len(matches) > 0 THEN matches[1].user ELSE NoMatch

\* -------------------------------------------------------------- moderation
\* A message is a sequence of one-character strings.
UpperChars == <<"A", "B", "C", "D", "E", "F", "G", "H", "I", "J", "K", "L", "M", "N", "O", "P", "Q", "R", "S", "T", "U", "V", "W", "X", "Y", "Z">>
LowerChars == <<"a", "b", "c", "d", "e", "f", "g", "h", "i", "j", "k", "l", "m", "n", "o", "p", "q", "r", "s", "t", "u", "v", "w", "x", "y", "z">>
Digits == {"0", "1", "2", "3", "4", "5", "6", "7", "8", "9"}

toLowerCase(message) ==
    [i \in 1..Len(message) |->
        IF \E k \in 1..Len(UpperChars) : UpperChars[k] = message[i]
        THEN LowerChars[CHOOSE k \in 1..Len(UpperChars) : UpperChars[k] = message[i]]
        ELSE message[i]]

\* .replace(/[^a-z0-9]/g, '')
stripNonAlnum(message) ==
    SelectSeq(message, LAMBDA c : c \in Elems(LowerChars) \cup Digits)

includes(hay, needle) ==
    \E i \in 1..(Len(hay) - Len(needle) + 1) :
        SubSeq(hay, i, i + Len(needle) - 1) = needle

BANNED_WORDS == <<
    <<"n", "1", "g", "g">>,
    <<"n", "1", "g", "g", "e", "r">>,
    <<"n", "1", "g", "g", "a">>,
    <<"n", "1", "g", "g", "a", "s">>,
    <<"n", "1", "g", "g", "e", "r", "s">>,
    <<"r", "3", "t", "a", "r", "d">>,
    <<"r", "3", "t", "a", "r", "d", "e", "d">>,
    <<"f", "4", "g", "g", "o", "t">>,
    <<"f", "4", "g">>,
    <<"k", "1", "k", "e">>,
    <<"s", "p", "1", "c">>,
    <<"s", "p", "1", "c", "k">>,
    <<"c", "h", "1", "n", "k">>,
    <<"w", "3", "t", "b", "a", "c", "k">>,
    <<"t", "0", "w", "e", "l", "h", "e", "a", "d">>,
    <<"g", "0", "0", "k">>,
    <<"d", "1", "k", "e">>,
    <<"t", "r", "4", "n", "n", "y">>,
    <<"w", "h", "0", "r", "e">>,
    <<"s", "l", "u", "t">>,
    <<"n", "4", "z", "i">>,
    <<"n", "4", "z", "i", "s">>,
    <<"t", "e", "r", "r", "o", "r", "i", "s", "t">>,
    <<"t", "e", "r", "r", "o", "r", "i", "s", "m">>>>

containsBannedWords(message) ==
    LET normalizedMessage == stripNonAlnum(toLowerCase(message))
    IN \E k \in 1..Len(BANNED_WORDS) :
          includes(normalizedMessage, stripNonAlnum(toLowerCase(BANNED_WORDS[k])))

\* a replace that deletes the matches instead of masking them
eraseAll(message, word, i) ==
    LET RECURSIVE erase(_)
        erase(k) ==
            IF k > Len(message) THEN <<>>
            ELSE IF /\ k + Len(word) - 1 <= Len(message)
                    /\ toLowerCase(SubSeq(message, k, k + Len(word) - 1)) = toLowerCase(word)
                 THEN erase(k + Len(word))
                 ELSE <<message[k]>> \o erase(k + 1)
    IN erase(i)

\* message.replace(new RegExp(word, 'gi'), '***'): leftmost matches, left to
\* right, not overlapping, letters compared without case
RECURSIVE replaceAll(_, _, _)
replaceAll(message, word, i) ==
    IF i > Len(message) THEN <<>>
    ELSE IF /\ i + Len(word) - 1 <= Len(message)
            /\ toLowerCase(SubSeq(message, i, i + Len(word) - 1)) = toLowerCase(word)
         THEN <<"*", "*", "*">> \o replaceAll(message, word, i + Len(word))
         ELSE <<message[i]>> \o replaceAll(message, word, i + 1)

RECURSIVE replaceEach(_, _)
replaceEach(message, k) ==
    IF k > Len(BANNED_WORDS) THEN message
    ELSE replaceEach(replaceAll(message, BANNED_WORDS[k], 1), k + 1)

filterMessage(message) ==
    IF ~containsBannedWords(message) THEN message
    ELSE replaceEach(message, 1)

\* the messages the sessions of the model may send, and what the filter makes
\* of each (the filter is a pure function, tabulated once)
Texts == {<<"h", "i">>, <<"S", "l", "u", "t", "!">>}
filtered == [m \in Texts |-> filterMessage(m)]

RelayKinds == {"offer", "answer", "ice-candidate"}
RelayPayloads == {"sdp1", "sdp2"}

\* ------------------------------------------------------------- deliveries
\* socket.io carries the events emitted to one socket over that socket's
\* connection, in the order of the emit calls. The sockets in DOMAIN inbox
\* are the ones whose deliveries a specification follows; `by` is the socket
\* whose handler emitted the event.
InFlight(events, b, by) ==
    LET mine == SelectSeq(events, LAMBDA e : e.to = b)
    IN [i \in 1..Len(mine) |->
           [to |-> b, ev |-> mine[i].ev, by |-> by,
            partnerId |-> IF mine[i].ev = "chatFound"
                          THEN mine[i].payload.partnerId ELSE None]]

\* what every handler leaves on the connections: its events behind the ones
\* still on their way; a closed socket receives nothing more. The client's
\* own 'connect' and 'disconnect' listeners run when its connection opens
\* and closes.
Posted ==
    /\ inbox' = [b \in DOMAIN inbox |->
                    IF conn'[b] # "live" THEN <<>>
                    ELSE inbox[b] \o InFlight(out', b, last'.from)]
    /\ \A b \in DOMAIN inbox : Len(inbox'[b]) <= MaxInFlight
    /\ status' = [b \in DOMAIN status |->
                     IF conn'[b] = "closed" THEN "disconnected"
                     ELSE IF conn[b] = "new" /\ conn'[b] = "live" THEN "waiting"
                     ELSE status[b]]
    /\ UNCHANGED <<seen, recv, peers, signal>>

\* -------------------------------------------------------------------- init
Init ==
    /\ conn = [s \in Sessions |-> "new"]
    /\ waitingUsers = <<>>
    /\ chatPairs = [s \in Sessions |-> None]
    /\ videoChatPairs = [s \in Sessions |-> None]
    /\ reportedUsers = {}
    /\ found = 0
    /\ reportedLive = {}
    /\ last = [op |-> "init"]
    /\ out = <<>>
    /\ logged = <<>>
    /\ inbox = <<>>
    /\ seen = <<>>
    /\ recv = [ev |-> "none"]
    /\ status = <<>>
    /\ peers = <<>>
    /\ signal = <<>>

\* io.on('connection'): a fresh socket id, never reused; the ids are opaque to
\* the server, so the k-th socket to connect is called k
Connect(s) ==
    /\ conn[s] = "new"
    /\ \A r \in Sessions : r < s => conn[r] # "new"
    /\ conn' = [conn EXCEPT ![s] = "live"]
    /\ last' = [op |-> "connect", from |-> s]
    /\ out' = <<>>
    /\ logged' = <<[line |-> "User connected:", id |-> s]>>
    /\ UNCHANGED <<shared, found, reportedLive>>
    /\ Posted

\* a match that is left in the waiting list
keepMatched(queue, match) == queue

\* the findChat handler taking its match out of the waiting list
removeMatched(queue, match) == spliceOut(queue, match.socketId)

\* socket.on('findChat')
FindChat(s, preferences, isVideoChat) ==
    /\ conn[s] = "live"
    /\ IF ~validatePreferences(preferences)
       THEN /\ out' = Emit(s, "error", None, <<>>)
            /\ logged' = <<[line |-> "Invalid preferences received from user:", id |-> s]>>
            /\ last' = [op |-> "findChat", from |-> s, preferences |-> preferences,
                        match |-> NoMatch, waiting |-> findIndex(waitingUsers, s) # 0]
            /\ UNCHANGED <<conn, shared, found, reportedLive>>
       ELSE LET queue == spliceOut(waitingUsers, s)
                user == [socketId |-> s, preferences |-> preferences.value,
                         isVideoChat |-> isVideoChat]
                match == findBestMatch(user, queue, reportedUsers)
                commonTags == findCommonTags(user.preferences.tags, match.preferences.tags)
                chatFound(partnerId) == [commonTags |-> commonTags,
                                         isVideoChat |-> isVideoChat,
                                         partnerId |-> partnerId]
            IN /\ found < MaxFindChats
               /\ found' = found + 1
               /\ last' = [op |-> "findChat", from |-> s, preferences |-> preferences,
                           isVideoChat |-> isVideoChat, match |-> match,
                           waiting |-> findIndex(waitingUsers, s) # 0]
               /\ logged' = <<>>
               /\ UNCHANGED reportedLive
               /\ IF match.socketId # None
                  THEN /\ waitingUsers' = removeMatched(queue, match)
                       /\ IF isVideoChat
                          THEN /\ videoChatPairs' = [videoChatPairs EXCEPT
                                      ![s] = match.socketId, ![match.socketId] = s]
                               /\ UNCHANGED chatPairs
                          ELSE /\ chatPairs' = [chatPairs EXCEPT
                                      ![s] = match.socketId, ![match.socketId] = s]
                               /\ UNCHANGED videoChatPairs
                       /\ out' = Emit(s, "chatFound", None, chatFound(match.socketId))
                                   \o Emit(match.socketId, "chatFound", None, chatFound(s))
                       /\ UNCHANGED <<conn, reportedUsers>>
                  ELSE /\ waitingUsers' = Append(queue, user)
                       /\ out' = Emit(s, "waiting", None, <<>>)
                       /\ UNCHANGED <<conn, chatPairs, videoChatPairs, reportedUsers>>
    /\ Posted

\* a relay that forwards without looking up the sender's partner
RelayUnchecked(s, kind, target, payload) ==
    /\ conn[s] = "live"
    /\ out' = Emit(target, kind, s, payload)
    /\ last' = [op |-> kind, from |-> s, target |-> target, payload |-> payload]
    /\ logged' = <<>>
    /\ UNCHANGED <<conn, shared, found, reportedLive>>
    /\ Posted

\* socket.on('offer' | 'answer' | 'ice-candidate'): the three handlers differ
\* only in the event name and the name of the payload field
Relay(s, kind, target, payload) ==
    /\ conn[s] = "live"
    /\ LET partnerId == videoChatPairs[s]
       IN out' = IF partnerId = target
                 THEN Emit(target, kind, s, payload)
                 ELSE <<>>
    /\ last' = [op |-> kind, from |-> s, target |-> target, payload |-> payload]
    /\ logged' = <<>>
    /\ UNCHANGED <<conn, shared, found, reportedLive>>
    /\ Posted

\* chatPairs.get(id) || videoChatPairs.get(id)
partnerOf(s) == IF chatPairs[s] # None THEN chatPairs[s] ELSE videoChatPairs[s]

\* the four Map.delete calls shared by next, report and disconnect
deletePair(pairs, s, partnerId) == [pairs EXCEPT ![s] = None, ![partnerId] = None]

\* socket.on('next')
NextChat(s) ==
    /\ conn[s] = "live"
    /\ LET partnerId == partnerOf(s)
           ended == IF partnerId # None
                    THEN Emit(partnerId, "chatEnded", None, <<>>)
                    ELSE <<>>
           idx == findIndex(waitingUsers, s)
           again == IF idx # 0
                    THEN Emit(s, "findChat", None,
                              [preferences |-> waitingUsers[idx].preferences,
                               isVideoChat |-> waitingUsers[idx].isVideoChat])
                    ELSE <<>>
       IN /\ IF partnerId # None
             THEN /\ chatPairs' = deletePair(chatPairs, s, partnerId)
                  /\ videoChatPairs' = deletePair(videoChatPairs, s, partnerId)
             ELSE UNCHANGED <<chatPairs, videoChatPairs>>
          /\ out' = ended \o again
    /\ last' = [op |-> "next", from |-> s, partner |-> partnerOf(s)]
    /\ logged' = <<>>
    /\ UNCHANGED <<conn, waitingUsers, reportedUsers, found, reportedLive>>
    /\ Posted

\* a message handler that looks its partner up in both tables
MessageAnyPartner(s, message) ==
    /\ conn[s] = "live"
    /\ LET partnerId == partnerOf(s)
           filteredMessage == filtered[message]
       IN /\ out' = IF partnerId # None
                    THEN (IF filteredMessage # message
                          THEN Emit(s, "messageModerated", None,
                                    [original |-> message, filtered |-> filteredMessage])
                          ELSE <<>>)
                         \o Emit(partnerId, "message", None, filteredMessage)
                    ELSE <<>>
          /\ logged' = IF partnerId # None /\ filteredMessage # message
                       THEN <<[line |-> "Moderated message from", id |-> s,
                               original |-> message, filtered |-> filteredMessage]>>
                       ELSE <<>>
    /\ last' = [op |-> "message", from |-> s, message |-> message]
    /\ UNCHANGED <<conn, shared, found, reportedLive>>
    /\ Posted

\* socket.on('message')
Message(s, message) ==
    /\ conn[s] = "live"
    /\ LET partnerId == chatPairs[s]
           filteredMessage == filtered[message]
       IN /\ out' = IF partnerId # None
                    THEN (IF filteredMessage # message
                          THEN Emit(s, "messageModerated", None,
                                    [original |-> message, filtered |-> filteredMessage])
                          ELSE <<>>)
                         \o Emit(partnerId, "message", None, filteredMessage)
                    ELSE <<>>
          /\ logged' = IF partnerId # None /\ filteredMessage # message
                       THEN <<[line |-> "Moderated message from", id |-> s,
                               original |-> message, filtered |-> filteredMessage]>>
                       ELSE <<>>
    /\ last' = [op |-> "message", from |-> s, message |-> message]
    /\ UNCHANGED <<conn, shared, found, reportedLive>>
    /\ Posted

\* a report handler that does not test whether it found a partner
ReportUnguarded(s) ==
    /\ conn[s] = "live"
    /\ LET partnerId == partnerOf(s)
       IN /\ reportedUsers' = reportedUsers \cup {partnerId}
          /\ out' = Emit(partnerId, "chatEnded", None, <<>>)
          /\ chatPairs' = [b \in Sessions |->
                             IF b \in {s, partnerId} THEN None ELSE chatPairs[b]]
          /\ videoChatPairs' = [b \in Sessions |->
                                  IF b \in {s, partnerId} THEN None ELSE videoChatPairs[b]]
    /\ reportedLive' = IF partnerOf(s) # None /\ conn[partnerOf(s)] = "live"
                       THEN reportedLive \cup {partnerOf(s)}
                       ELSE reportedLive
    /\ last' = [op |-> "report", from |-> s, partner |-> partnerOf(s)]
    /\ logged' = <<[line |-> "reported", id |-> s, partner |-> partnerOf(s)]>>
    /\ UNCHANGED <<conn, waitingUsers, found>>
    /\ Posted

\* socket.on('report'); the reason is only written to the console, and the
\* record of it here leaves its text out
Report(s) ==
    /\ conn[s] = "live"
    /\ LET partnerId == partnerOf(s)
       IN IF partnerId # None
          THEN /\ reportedUsers' = reportedUsers \cup {partnerId}
               /\ out' = Emit(partnerId, "chatEnded", None, <<>>)
               /\ chatPairs' = deletePair(chatPairs, s, partnerId)
               /\ videoChatPairs' = deletePair(videoChatPairs, s, partnerId)
          ELSE /\ out' = <<>>
               /\ UNCHANGED <<chatPairs, videoChatPairs, reportedUsers>>
    /\ reportedLive' = IF partnerOf(s) # None /\ conn[partnerOf(s)] = "live"
                       THEN reportedLive \cup {partnerOf(s)}
                       ELSE reportedLive
    /\ last' = [op |-> "report", from |-> s, partner |-> partnerOf(s)]
    /\ logged' = IF partnerOf(s) # None
                 THEN <<[line |-> "reported", id |-> s, partner |-> partnerOf(s)]>>
                 ELSE <<>>
    /\ UNCHANGED <<conn, waitingUsers, found>>
    /\ Posted

\* a disconnect that leaves reportedUsers alone
DisconnectKeepsReported(s) ==
    /\ conn[s] = "live"
    /\ conn' = [conn EXCEPT ![s] = "closed"]
    /\ LET partnerId == partnerOf(s)
       IN IF partnerId # None
          THEN /\ out' = Emit(partnerId, "chatEnded", None, <<>>)
               /\ chatPairs' = deletePair(chatPairs, s, partnerId)
               /\ videoChatPairs' = deletePair(videoChatPairs, s, partnerId)
          ELSE /\ out' = <<>>
               /\ UNCHANGED <<chatPairs, videoChatPairs>>
    /\ waitingUsers' = spliceOut(waitingUsers, s)
    /\ reportedUsers' = reportedUsers
    /\ reportedLive' = reportedLive \ {s}
    /\ last' = [op |-> "disconnect", from |-> s, partner |-> partnerOf(s),
                waiting |-> findIndex(waitingUsers, s) # 0,
                blocked |-> s \in reportedUsers]
    /\ logged' = <<[line |-> "User disconnected:", id |-> s]>>
    /\ UNCHANGED found
    /\ Posted

\* a disconnect that also takes the partner out of reportedUsers
DisconnectForgetsPartner(s) ==
    /\ conn[s] = "live"
    /\ conn' = [conn EXCEPT ![s] = "closed"]
    /\ LET partnerId == partnerOf(s)
       IN IF partnerId # None
          THEN /\ out' = Emit(partnerId, "chatEnded", None, <<>>)
               /\ chatPairs' = deletePair(chatPairs, s, partnerId)
               /\ videoChatPairs' = deletePair(videoChatPairs, s, partnerId)
          ELSE /\ out' = <<>>
               /\ UNCHANGED <<chatPairs, videoChatPairs>>
    /\ waitingUsers' = spliceOut(waitingUsers, s)
    /\ reportedUsers' = reportedUsers \ {s, partnerOf(s)}
    /\ reportedLive' = reportedLive \ {s}
    /\ last' = [op |-> "disconnect", from |-> s, partner |-> partnerOf(s),
                waiting |-> findIndex(waitingUsers, s) # 0,
                blocked |-> s \in reportedUsers]
    /\ logged' = <<[line |-> "User disconnected:", id |-> s]>>
    /\ UNCHANGED found
    /\ Posted

\* socket.on('disconnect'): the socket has left its room when the handler runs
Disconnect(s) ==
    /\ conn[s] = "live"
    /\ conn' = [conn EXCEPT ![s] = "closed"]
    /\ LET partnerId == partnerOf(s)
       IN IF partnerId # None
          THEN /\ out' = Emit(partnerId, "chatEnded", None, <<>>)
               /\ chatPairs' = deletePair(chatPairs, s, partnerId)
               /\ videoChatPairs' = deletePair(videoChatPairs, s, partnerId)
          ELSE /\ out' = <<>>
               /\ UNCHANGED <<chatPairs, videoChatPairs>>
    /\ waitingUsers' = spliceOut(waitingUsers, s)
    /\ reportedUsers' = reportedUsers \ {s}
    /\ reportedLive' = reportedLive \ {s}
    /\ last' = [op |-> "disconnect", from |-> s, partner |-> partnerOf(s),
                waiting |-> findIndex(waitingUsers, s) # 0,
                blocked |-> s \in reportedUsers]
    /\ logged' = <<[line |-> "User disconnected:", id |-> s]>>
    /\ UNCHANGED found
    /\ Posted

\* The handlers that read or write the shared state, with the findChat
\* payloads drawn from `payloads`.
Handlers(payloads) ==
    \/ \E s \in Sessions : Connect(s)
    \/ \E s \in Sessions, p \in payloads, v \in BOOLEAN : FindChat(s, p, v)
    \/ \E s \in Sessions : NextChat(s)
    \/ \E s \in Sessions, m \in Texts : Message(s, m)
    \/ \E s \in Sessions : Report(s)
    \/ \E s \in Sessions : Disconnect(s)

Relays ==
    \E s \in Sessions, k \in RelayKinds, target \in Sessions \cup {None},
       payload \in RelayPayloads : Relay(s, k, target, payload)

\* Every handler of the server; two preference profiles keep the relay
\* inputs affordable.
Next == Handlers(RelayRunPayloads) \/ Relays

Spec == Init /\ [][Next]_vars

\* The matchmaking handlers over the full preference domain. The relay
\* handlers assign no shared variable and are left to Spec.
NextMatch == Handlers(Payloads)

SpecMatch == Init /\ [][NextMatch]_vars

\* ------------------------------------------------ deliveries to the clients
\* the setStatus calls of the 'error', 'waiting', 'chatFound' and 'chatEnded'
\* listeners; the other listeners leave `status` alone
setStatus(old, ev) ==
    IF ev = "error" THEN "error"
    ELSE IF ev = "waiting" THEN "waiting"
    ELSE IF ev = "chatFound" THEN "chatting"
    ELSE IF ev = "chatEnded" THEN "disconnected"
    ELSE old

\* the client's socket takes the next event off its connection
\* (socket.on('chatFound' | 'message' | 'chatEnded' | ...))
ReceiveNewest(b) ==
    /\ b \in DOMAIN inbox
    /\ inbox[b] # <<>>
    /\ LET e == inbox[b][Len(inbox[b])]
       IN /\ recv' = e
          /\ seen' = [seen EXCEPT ![b] =
                         IF e.ev = "chatFound" THEN [@ EXCEPT ![e.partnerId] = "found"]
                         ELSE IF e.ev = "chatEnded" THEN [@ EXCEPT ![e.by] = "ended"]
                         ELSE @]
          /\ inbox' = [inbox EXCEPT ![b] = SubSeq(@, 1, Len(@) - 1)]
          /\ status' = [status EXCEPT ![b] = setStatus(@, e.ev)]
    /\ UNCHANGED <<conn, shared, found, reportedLive, last, out, logged, peers, signal>>

Receive(b) ==
    /\ b \in DOMAIN inbox
    /\ inbox[b] # <<>>
    /\ LET e == Head(inbox[b])
       IN /\ recv' = e
          /\ seen' = [seen EXCEPT ![b] =
                         IF e.ev = "chatFound" THEN [@ EXCEPT ![e.partnerId] = "found"]
                         ELSE IF e.ev = "chatEnded" THEN [@ EXCEPT ![e.by] = "ended"]
                         ELSE @]
          /\ inbox' = [inbox EXCEPT ![b] = Tail(@)]
          /\ status' = [status EXCEPT ![b] = setStatus(@, e.ev)]
    /\ UNCHANGED <<conn, shared, found, reportedLive, last, out, logged, peers, signal>>

\* one preference profile: every two sessions can be paired
OrderPayloads ==
    {p \in ValidPayloads : p.value.language = "English" /\ p.value.ageGroup = "25-34"}

\* The deliveries to the first socket are followed: socket ids are opaque to
\* the server and a connection changes no state, so every run has a twin in
\* which the recipient of interest is the first socket to connect.
Followed == {1}

InitOrder ==
    /\ conn = [s \in Sessions |-> "new"]
    /\ waitingUsers = <<>>
    /\ chatPairs = [s \in Sessions |-> None]
    /\ videoChatPairs = [s \in Sessions |-> None]
    /\ reportedUsers = {}
    /\ found = 0
    /\ reportedLive = {}
    /\ last = [op |-> "init"]
    /\ out = <<>>
    /\ logged = <<>>
    /\ inbox = [s \in Followed |-> <<>>]
    /\ seen = [s \in Followed |-> [a \in Sessions |-> "none"]]
    /\ recv = [ev |-> "none"]
    /\ status = [s \in Followed |-> "disconnected"]
    /\ peers = <<>>
    /\ signal = <<>>

NextOrder == Handlers(OrderPayloads) \/ \E b \in Sessions : Receive(b)

SpecOrder == InitOrder /\ [][NextOrder]_vars

\* ------------------------------------------------- findBestMatch on its own
\* The preferences of the waiting users: single tags that let several users
\* wait side by side, one user with two tags, two age groups, two languages.
QueuePrefValues ==
    {[tags |-> t, language |-> "English", ageGroup |-> g, agreeToGuidelines |-> TRUE] :
        t \in {<<"Art">>, <<"Music">>, <<"Sports">>, <<"Art", "Music">>},
        g \in {"18-24", "25-34"}}
    \cup {[tags |-> <<"Art">>, language |-> "Spanish", ageGroup |-> "18-24",
           agreeToGuidelines |-> TRUE]}

\* the k-th waiting user has socket id k
QueueEntries(k) ==
    {[socketId |-> k, preferences |-> p, isVideoChat |-> v] :
        p \in QueuePrefValues, v \in BOOLEAN}

\* the requesters: a socket that is not waiting (the handler has spliced the
\* requester's own entry out before it calls findBestMatch)
Requesters ==
    {[socketId |-> MaxQueue + 1,
      preferences |-> [tags |-> t, language |-> "English", ageGroup |-> "18-24",
                       agreeToGuidelines |-> TRUE],
      isVideoChat |-> v] :
        t \in {<<"Art", "Music", "Sports">>, <<"Music", "Art">>}, v \in BOOLEAN}

\* A waiting list the findChat handler can have built: a user is pushed only
\* when findBestMatch found nobody, so every earlier entry was reported, of
\* another language or without a common tag when a later one arrived, and
\* entries and reports stay until their socket disconnects.
CanWaitTogether(queue, reported) ==
    \A i, j \in 1..Len(queue) :
        i < j =>
            \/ queue[i].socketId \in reported
            \/ queue[i].preferences.language # queue[j].preferences.language
            \/ Elems(queue[i].preferences.tags) \cap Elems(queue[j].preferences.tags) = {}

Queues(reported) ==
    {queue \in UNION {[1..n -> UNION {QueueEntries(k) : k \in 1..n}] : n \in 0..MaxQueue} :
        /\ \A k \in 1..Len(queue) : queue[k].socketId = k
        /\ CanWaitTogether(queue, reported)}

InitBest ==
    /\ conn = [s \in 1..(MaxQueue + 1) |-> "live"]
    /\ reportedUsers \in SUBSET (1..MaxQueue)
    /\ waitingUsers \in Queues(reportedUsers)
    /\ reportedUsers \subseteq {waitingUsers[k].socketId : k \in 1..Len(waitingUsers)}
    /\ chatPairs = [s \in Sessions |-> None]
    /\ videoChatPairs = [s \in Sessions |-> None]
    /\ found = 0
    /\ reportedLive = reportedUsers
    /\ last = [op |-> "init"]
    /\ out = <<>>
    /\ logged = <<>>
    /\ inbox = <<>>
    /\ seen = <<>>
    /\ recv = [ev |-> "none"]
    /\ status = <<>>
    /\ peers = <<>>
    /\ signal = <<>>

\* const match = findBestMatch(user)
CallFindBestMatch(user) ==
    /\ last' = [op |-> "findBestMatch", user |-> user,
                match |-> findBestMatch(user, waitingUsers, reportedUsers)]
    /\ UNCHANGED <<conn, shared, found, reportedLive, out, logged>>
    /\ Posted

NextBest == \E user \in Requesters : CallFindBestMatch(user)

SpecBest == InitBest /\ [][NextBest]_vars

\* ------------------------------------------------- filterMessage on its own
\* Messages put together from banned words in several spellings, halves of a
\* banned word, punctuation and harmless text.
Pieces == {<<"s", "l", "u", "t">>, <<"S", "l", "U", "t">>, <<"f", "4", "g">>,
           <<"n", "1", "g", "g", "e", "r">>, <<"s", "l">>, <<"u", "t">>,
           <<".">>, <<"h", "i">>}

RECURSIVE Join(_)
Join(pieces) == IF pieces = <<>> THEN <<>> ELSE Head(pieces) \o Join(Tail(pieces))

Messages == {Join(pieces) : pieces \in UNION {[1..n -> Pieces] : n \in 0..MaxPieces}}

InitFilter ==
    /\ conn = [s \in Sessions |-> "new"]
    /\ waitingUsers = <<>>
    /\ chatPairs = [s \in Sessions |-> None]
    /\ videoChatPairs = [s \in Sessions |-> None]
    /\ reportedUsers = {}
    /\ found = 0
    /\ reportedLive = {}
    /\ last \in {[op |-> "text", message |-> message] : message \in Messages}
    /\ out = <<>>
    /\ logged = <<>>
    /\ inbox = <<>>
    /\ seen = <<>>
    /\ recv = [ev |-> "none"]
    /\ status = <<>>
    /\ peers = <<>>
    /\ signal = <<>>

\* filterMessage(message), and filterMessage of what it returned
CallFilterMessage ==
    /\ last.op = "text"
    /\ last' = [op |-> "filterMessage", message |-> last.message,
                once |-> filterMessage(last.message),
                twice |-> filterMessage(filterMessage(last.message))]
    /\ UNCHANGED <<conn, shared, found, reportedLive, out, logged>>
    /\ Posted

NextFilter == CallFilterMessage

SpecFilter == InitFilter /\ [][NextFilter]_vars
\* ------------------------------------------------------ the video clients
\* Two clients that the server has paired for a video chat, each running the
\* effect of VideoChat.tsx with the other's socket id as partnerId. An
\* async listener gives way to the other listeners at its awaits.
MaxCandidates == 2
MaxNegotiations == 2

VideoClients == {1, 2}
IceCandidates == 1..MaxCandidates

\* socket ids are strings made of letters, digits, '-' and '_'
SocketIds == {<<"a">>, <<"A">>, <<"a", "0">>, <<"_", "a">>, <<"-">>}

\* the UTF-16 code unit of a character of a socket id
CodeUnit(c) ==
    CASE c = "-" -> 45 [] c = "0" -> 48 [] c = "A" -> 65 [] c = "_" -> 95 [] c = "a" -> 97

\* x < y on strings: the first differing code unit decides, and a proper
\* prefix is smaller
RECURSIVE LessThan(_, _)
LessThan(x, y) ==
    IF y = <<>> THEN FALSE
    ELSE IF x = <<>> THEN TRUE
    ELSE IF Head(x) # Head(y) THEN CodeUnit(Head(x)) < CodeUnit(Head(y))
    ELSE LessThan(Tail(x), Tail(y))

\* a client that takes the initiator role whatever the ids are
alwaysInitiator(socketId, partnerId) == TRUE

\* const shouldBeInitiator = socketId < partnerId
shouldBeInitiator(socketId, partnerId) == LessThan(socketId, partnerId)

\* the while loop over pendingCandidatesRef: every stored candidate is added
addPending(added, pending) == added \cup Elems(pending)

\* socket.emit(kind, { target: partnerId, ... }) as the partner receives it:
\* the relay handler forwards the event, with `from` the sender's socket id,
\* iff the target is the sender's video partner
Signalled(c, kind, payload) ==
    LET targets == {t \in VideoClients : peers[t].socketId = peers[c].partnerId}
    IN [t \in VideoClients |->
           IF t \in targets /\ videoChatPairs[c] = t /\ conn[t] = "live"
           THEN signal[t] \o <<[ev |-> kind, from |-> peers[c].socketId,
                                payload |-> payload]>>
           ELSE signal[t]]

serverSide == <<conn, waitingUsers, chatPairs, videoChatPairs, reportedUsers, found,
                reportedLive, last, out, logged, inbox, seen, recv, status>>

InitVideo ==
    /\ conn = [s \in Sessions |-> IF s \in VideoClients THEN "live" ELSE "new"]
    /\ waitingUsers = <<>>
    /\ chatPairs = [s \in Sessions |-> None]
    /\ videoChatPairs = [s \in Sessions |-> IF s = 1 THEN 2 ELSE IF s = 2 THEN 1 ELSE None]
    /\ reportedUsers = {}
    /\ found = 0
    /\ reportedLive = {}
    /\ last = [op |-> "init"]
    /\ out = <<>>
    /\ logged = <<>>
    /\ inbox = <<>>
    /\ seen = <<>>
    /\ recv = [ev |-> "none"]
    /\ status = <<>>
    /\ \E id1, id2 \in SocketIds :
          /\ id1 # id2
          /\ peers = [c \in VideoClients |->
                [socketId |-> IF c = 1 THEN id1 ELSE id2,
                 partnerId |-> IF c = 1 THEN id2 ELSE id1,
                 negotiationInProgress |-> FALSE,
                 isInitiator |-> FALSE,
                 signalingState |-> "stable",
                 localDescription |-> FALSE,
                 remoteDescription |-> FALSE,
                 settingRemote |-> "none",
                 pendingCandidates |-> <<>>,
                 iceCandidates |-> <<>>,
                 gathered |-> FALSE,
                 received |-> {},
                 added |-> {},
                 negotiations |-> 0,
                 offers |-> 0]]
    /\ signal = [c \in VideoClients |-> <<>>]

\* peerConnection.onnegotiationneeded, up to its first await
NegotiationNeeded(c) ==
    /\ peers[c].negotiations < MaxNegotiations
    /\ LET p == peers[c]
           initiator == shouldBeInitiator(p.socketId, p.partnerId)
       IN peers' = [peers EXCEPT ![c] =
              IF p.negotiationInProgress
              THEN [p EXCEPT !.negotiations = @ + 1]
              ELSE [p EXCEPT !.negotiations = @ + 1,
                             !.isInitiator = initiator,
                             !.negotiationInProgress = initiator]]
    /\ UNCHANGED <<serverSide, signal>>

\* onnegotiationneeded after createOffer and setLocalDescription: the offer
\* is sent; a local offer cannot be set over a remote one
OfferCreated(c) ==
    /\ peers[c].negotiationInProgress
    /\ IF peers[c].signalingState \in {"stable", "have-local-offer"}
       THEN /\ peers' = [peers EXCEPT ![c].negotiationInProgress = FALSE,
                                      ![c].localDescription = TRUE,
                                      ![c].signalingState = "have-local-offer",
                                      ![c].offers = @ + 1]
            /\ signal' = Signalled(c, "offer", "sdp1")
       ELSE /\ peers' = [peers EXCEPT ![c].negotiationInProgress = FALSE]
            /\ UNCHANGED signal
    /\ UNCHANGED serverSide

\* the candidate with the highest priority, the first of them (reduce)
bestCandidate(iceCandidates) ==
    LET i == CHOOSE i \in 1..Len(iceCandidates) :
                 /\ \A j \in 1..Len(iceCandidates) : iceCandidates[j] <= iceCandidates[i]
                 /\ \A j \in 1..(i - 1) : iceCandidates[j] < iceCandidates[i]
    IN iceCandidates[i]

\* peerConnection.onicecandidate: gathering starts with the local
\* description; selectedIceCandidate is null in the closure of the effect,
\* so every candidate is sent, and the best one again when gathering ends
OnIceCandidate(c, candidate) ==
    /\ peers[c].localDescription
    /\ ~peers[c].gathered
    /\ IF candidate # None
       THEN /\ candidate \notin Elems(peers[c].iceCandidates)
            /\ peers' = [peers EXCEPT ![c].iceCandidates = Append(@, candidate)]
            /\ signal' = Signalled(c, "ice-candidate", candidate)
       ELSE /\ Len(peers[c].iceCandidates) = MaxCandidates
            /\ peers' = [peers EXCEPT ![c].gathered = TRUE]
            /\ signal' = Signalled(c, "ice-candidate", bestCandidate(peers[c].iceCandidates))
    /\ UNCHANGED serverSide

\* socket.on('offer'), up to the await of setRemoteDescription
OfferReceived(c) ==
    /\ signal[c] # <<>>
    /\ Head(signal[c]).ev = "offer"
    /\ signal' = [signal EXCEPT ![c] = Tail(@)]
    /\ peers' = [peers EXCEPT ![c] =
          IF Head(signal[c]).from = @.partnerId /\ @.signalingState = "stable"
          THEN [@ EXCEPT !.isInitiator = FALSE, !.settingRemote = "offer"]
          ELSE @]
    /\ UNCHANGED serverSide

\* socket.on('offer') from the end of setRemoteDescription: the answer is
\* created, set and sent; pendingCandidatesRef is not looked at
RemoteOfferSet(c) ==
    /\ peers[c].settingRemote = "offer"
    /\ peers' = [peers EXCEPT ![c].settingRemote = "none",
                              ![c].remoteDescription = TRUE,
                              ![c].localDescription = TRUE,
                              ![c].signalingState = "stable"]
    /\ signal' = Signalled(c, "answer", "sdp2")
    /\ UNCHANGED serverSide

\* socket.on('answer'), up to the await of setRemoteDescription
AnswerReceived(c) ==
    /\ signal[c] # <<>>
    /\ Head(signal[c]).ev = "answer"
    /\ signal' = [signal EXCEPT ![c] = Tail(@)]
    /\ peers' = [peers EXCEPT ![c] =
          IF /\ Head(signal[c]).from = @.partnerId
             /\ @.isInitiator
             /\ @.signalingState = "have-local-offer"
          THEN [@ EXCEPT !.settingRemote = "answer"]
          ELSE @]
    /\ UNCHANGED serverSide

\* socket.on('answer') from the end of setRemoteDescription: the stored
\* candidates are added
RemoteAnswerSet(c) ==
    /\ peers[c].settingRemote = "answer"
    /\ peers' = [peers EXCEPT ![c].settingRemote = "none",
                              ![c].remoteDescription = TRUE,
                              ![c].signalingState = "stable",
                              ![c].added = addPending(@, peers[c].pendingCandidates),
                              ![c].pendingCandidates = <<>>]
    /\ UNCHANGED <<serverSide, signal>>

\* socket.on('ice-candidate')
IceCandidateReceived(c) ==
    /\ signal[c] # <<>>
    /\ Head(signal[c]).ev = "ice-candidate"
    /\ signal' = [signal EXCEPT ![c] = Tail(@)]
    /\ LET data == Head(signal[c])
       IN peers' = [peers EXCEPT ![c] =
              IF data.from # @.partnerId THEN @
              ELSE IF @.remoteDescription
              THEN [@ EXCEPT !.received = @ \cup {data.payload},
                             !.added = @ \cup {data.payload}]
              ELSE [@ EXCEPT !.received = @ \cup {data.payload},
                             !.pendingCandidates = Append(@, data.payload)]]
    /\ UNCHANGED serverSide

NextVideo ==
    \/ \E c \in VideoClients : NegotiationNeeded(c)
    \/ \E c \in VideoClients : OfferCreated(c)
    \/ \E c \in VideoClients, candidate \in IceCandidates \cup {None} : OnIceCandidate(c, candidate)
    \/ \E c \in VideoClients : OfferReceived(c)
    \/ \E c \in VideoClients : RemoteOfferSet(c)
    \/ \E c \in VideoClients : AnswerReceived(c)
    \/ \E c \in VideoClients : RemoteAnswerSet(c)
    \/ \E c \in VideoClients : IceCandidateReceived(c)

SpecVideo == InitVideo /\ [][NextVideo]_vars

\* ------------------------------------------------------------------ claims
SeverOps == {"next", "report", "disconnect"}

\* the last event was a findChat that paired its sender with a waiting candidate
Paired == last.op = "findChat" /\ last.match.socketId # None

InQueue(s) == \E i \in 1..Len(waitingUsers) : waitingUsers[i].socketId = s

Delivered(events, to, ev) ==
    Cardinality({i \in 1..Len(events) : events[i].to = to /\ events[i].ev = ev})

\* what the claims call malformed preferences
Malformed(preferences) ==
    \/ preferences.falsy
    \/ preferences.types.tags # "array"
    \/ preferences.types.language # "string"
    \/ preferences.types.ageGroup # "string"
    \/ preferences.types.agreeToGuidelines # "boolean"

\* C1: pairing symmetry: in every reachable state, if A's partner under a chat
\* mode is B then B's partner under that mode is A.
C1_PairingSymmetry ==
    \A a \in Sessions :
        /\ chatPairs[a] # None => chatPairs[chatPairs[a]] = a
        /\ videoChatPairs[a] # None => videoChatPairs[videoChatPairs[a]] = a

NoSharedPartner(pairs) ==
    \A a, b \in Sessions : (a # b /\ pairs[a] # None) => pairs[a] # pairs[b]

\* C2: no double pairing: under each mode no session is the partner of two
\* different sessions, and findChat never creates a pairing for a session that
\* already has a partner under that mode.
C2_NoDoublePairing ==
    [][/\ NoSharedPartner(chatPairs')
       /\ NoSharedPartner(videoChatPairs')
       /\ Paired' =>
             LET before == IF last'.isVideoChat THEN videoChatPairs ELSE chatPairs
             IN /\ before[last'.from] = None
                /\ before[last'.match.socketId] = None]_vars

\* C3: match requires overlap: whenever findChat pairs a requester with a
\* waiting candidate, the candidate is another session, has exactly the
\* requester's language, and shares at least one tag with the requester.
C3_MatchRequiresOverlap ==
    Paired =>
        /\ (IF last.isVideoChat THEN videoChatPairs ELSE chatPairs)[last.from]
              = last.match.socketId
        /\ last.match.socketId # last.from
        /\ last.match.preferences.language = last.preferences.value.language
        /\ Elems(last.match.preferences.tags) \cap Elems(last.preferences.value.tags) # {}

\* a findChat paired its sender although another session, of another language
\* or with no tag in common, was waiting and still is
C3_Witness ==
    /\ Paired
    /\ \E i \in 1..Len(waitingUsers) :
          \/ waitingUsers[i].preferences.language # last.preferences.value.language
          \/ Elems(waitingUsers[i].preferences.tags)
                \cap Elems(last.preferences.value.tags) = {}

\* C4: same chat mode: findChat never pairs a requester with a candidate that
\* asked for the other chat mode.
C4_SameChatMode ==
    Paired => last.match.isVideoChat = last.isVideoChat

\* C5: block exclusion: once a report against B has been processed, no
\* findChat selects B as its match candidate before B disconnects.
C5_BlockExclusion ==
    Paired => last.match.socketId \notin reportedLive

\* a findChat passed over a waiting session that was reported, although it had
\* the requester's language and a tag in common
C5_Witness ==
    /\ last.op = "findChat"
    /\ ~Malformed(last.preferences)
    /\ \E i \in 1..Len(waitingUsers) :
          /\ waitingUsers[i].socketId \in reportedLive
          /\ waitingUsers[i].socketId # last.from
          /\ waitingUsers[i].preferences.language = last.preferences.value.language
          /\ Elems(waitingUsers[i].preferences.tags)
                \cap Elems(last.preferences.value.tags) # {}

\* C6: relay authorization: an offer, answer or ice-candidate whose target is
\* not the sender's current video partner produces no output event at all.
C6_RelayAuthorization ==
    (last.op \in RelayKinds /\ last.target # videoChatPairs[last.from]) => out = <<>>

\* a relay was dropped whose target is connected and still records the sender
\* as its video partner, while the sender's pairing has changed
C6_Witness ==
    /\ last.op \in RelayKinds
    /\ last.target # None
    /\ conn[last.target] = "live"
    /\ videoChatPairs[last.target] = last.from
    /\ videoChatPairs[last.from] \notin {None, last.target}
    /\ out = <<>>

\* C7: relay delivery: a relay whose target is the sender's current video
\* partner delivers exactly one event of the same kind, to that partner only,
\* with the payload unchanged and `from` the sender; no shared state changes.
C7_RelayDelivery ==
    [][last'.op \in RelayKinds =>
          /\ shared' = shared
          /\ (last'.target # None /\ last'.target = videoChatPairs[last'.from]) =>
                out' = <<[to |-> last'.target, ev |-> last'.op,
                          from |-> last'.from, payload |-> last'.payload]>>]_vars

\* C8: exactly one end notification per severance: when a next, report or
\* disconnect of one side severs a pairing, the other side receives exactly
\* one chatEnded for it.
SeveredNotifiedOnce(before, after, a, events) ==
    \A b \in Sessions :
        (before[a] = b /\ before[b] = a /\ after[a] # b) =>
            Delivered(events, b, "chatEnded") = 1

C8_OneEndNotification ==
    [][last'.op \in SeverOps =>
          /\ SeveredNotifiedOnce(chatPairs, chatPairs', last'.from, out')
          /\ SeveredNotifiedOnce(videoChatPairs, videoChatPairs', last'.from, out')]_vars

\* C9: after a next issued by a paired session the session is back in
\* matchmaking: in the Waiting Queue having received `waiting`, or paired with
\* a new partner having received chatFound.
C9_NextRequeues ==
    (last.op = "next" /\ last.partner # None) =>
        \/ InQueue(last.from) /\ Delivered(out, last.from, "waiting") = 1
        \/ partnerOf(last.from) # None /\ Delivered(out, last.from, "chatFound") = 1

\* C10: invalid preferences are rejected without effect: a findChat with
\* malformed preferences emits `error` to the caller only and leaves the
\* Waiting Queue, both pairing tables and the Block List as they were.
C10_InvalidRejected ==
    [][(last'.op = "findChat" /\ Malformed(last'.preferences)) =>
          /\ shared' = shared
          /\ out' = <<[to |-> last'.from, ev |-> "error", from |-> None,
                       payload |-> <<>>]>>]_vars

\* a findChat with malformed preferences was rejected while its sender had an
\* entry in the Waiting Queue
C10_Witness ==
    /\ last.op = "findChat"
    /\ Malformed(last.preferences)
    /\ InQueue(last.from)
    /\ Delivered(out, last.from, "error") = 1

\* the chatFound events of `events` addressed to session `to`
ChatFoundTo(events, to) ==
    {events[i].payload : i \in {j \in 1..Len(events) :
                                  events[j].to = to /\ events[j].ev = "chatFound"}}

\* C11: when findChat pairs requester R with candidate M, R and M each receive
\* exactly one chatFound, with the same commonTags, equal to the intersection
\* of R's and M's tags, the same chat mode, and partnerId naming the other.
C11_ChatFoundBoth ==
    Paired =>
        LET R == last.from
            M == last.match.socketId
            common == Elems(last.preferences.value.tags)
                        \cap Elems(last.match.preferences.tags)
            Expected(partnerId, payload) ==
                /\ Elems(payload.commonTags) = common
                /\ Len(payload.commonTags) = Cardinality(common)
                /\ payload.isVideoChat = last.isVideoChat
                /\ payload.partnerId = partnerId
        IN /\ Delivered(out, R, "chatFound") = 1
           /\ Delivered(out, M, "chatFound") = 1
           /\ \A payload \in ChatFoundTo(out, R) : Expected(M, payload)
           /\ \A payload \in ChatFoundTo(out, M) : Expected(R, payload)
           /\ \A i \in 1..Len(out) : out[i].to \in {R, M}

\* a findChat paired two sessions whose tag lists differ and share one tag
C11_Witness ==
    /\ Paired
    /\ Elems(last.preferences.value.tags) # Elems(last.match.preferences.tags)
    /\ Delivered(out, last.from, "chatFound") = 1
    /\ Delivered(out, last.match.socketId, "chatFound") = 1

\* C12: text message handling: for every message sent by a session that has a
\* text partner, the partner receives exactly one `message` event whose text
\* is the filtered text, the sender receives messageModerated if and only if
\* the filtered text differs from the text, and no other session receives any
\* event.
C12_MessageHandling ==
    [][(last'.op = "message" /\ chatPairs[last'.from] # None) =>
          LET A == last'.from
              B == chatPairs[A]
              text == last'.message
          IN /\ Delivered(out', B, "message") = 1
             /\ \A i \in 1..Len(out') :
                   /\ out'[i].to \in {A, B}
                   /\ out'[i].ev = "message" => out'[i].payload = filtered[text]
             /\ (Delivered(out', A, "messageModerated") > 0) <=> (filtered[text] # text)]_vars

\* C13: report effect: after a report by A while A is paired with B (in text
\* or video mode) is processed, B is in the Block List, neither A nor B has a
\* partner under any mode, and B has received chatEnded.
C13_ReportEffect ==
    [][last'.op = "report" =>
          LET A == last'.from
          IN \A B \in Sessions :
                (chatPairs[A] = B \/ videoChatPairs[A] = B) =>
                    /\ B \in reportedUsers'
                    /\ chatPairs'[A] = None /\ videoChatPairs'[A] = None
                    /\ chatPairs'[B] = None /\ videoChatPairs'[B] = None
                    /\ Delivered(out', B, "chatEnded") = 1]_vars

\* C14: disconnect cleanup: after the disconnect of session A is processed,
\* from whatever state A was in, A has no entry in the Waiting Queue and is
\* not in the Block List.
C14_DisconnectCleanup ==
    last.op = "disconnect" => (~InQueue(last.from) /\ last.from \notin reportedUsers)

\* a session disconnected that was both waiting and reported
C14_Witness ==
    /\ last.op = "disconnect"
    /\ last.waiting
    /\ last.blocked

\* C15: Waiting Queue uniqueness: in every reachable state a session id
\* appears at most once in the Waiting Queue, including after repeated
\* findChat requests by the same session with the same or different
\* preferences.
C15_QueueUniqueness ==
    \A i, j \in 1..Len(waitingUsers) :
        waitingUsers[i].socketId = waitingUsers[j].socketId => i = j

\* a session that was waiting sent findChat again and waits again, behind
\* another waiting session
C15_Witness ==
    /\ last.op = "findChat"
    /\ ~Malformed(last.preferences)
    /\ last.waiting
    /\ Len(waitingUsers) >= 2
    /\ waitingUsers[Len(waitingUsers)].socketId = last.from
    /\ waitingUsers[Len(waitingUsers)].preferences = last.preferences.value

\* C16: Block List persistence: once a session is in the Block List it stays
\* there across every event (findChat, next, report, message, relay, and
\* disconnects of other sessions); the only event that removes it is that
\* session's own disconnect.
C16_BlockPersistence ==
    [][\A b \in reportedUsers :
          b \notin reportedUsers' => (last'.op = "disconnect" /\ last'.from = b)]_vars

\* a session disconnected whose partner was reported and connected, and the
\* partner is still in the Block List
C16_Witness ==
    /\ last.op = "disconnect"
    /\ last.partner # None
    /\ conn[last.partner] = "live"
    /\ last.partner \in reportedUsers

\* C17: no chat history is stored: processing a message event, whether it is
\* forwarded, moderated or dropped, leaves the Waiting Queue, both pairing
\* tables and the Block List unchanged and adds no stored record of the text.
C17_NoChatHistory ==
    [][last'.op = "message" =>
          /\ shared' = shared
          /\ \A i \in 1..Len(logged') :
                {"original", "filtered"} \cap DOMAIN logged'[i] = {}]_vars

\* what the claims call an eligible candidate for a request
Eligible(waitingUser, s, value, isVideoChat, reported) ==
    /\ waitingUser.socketId # s
    /\ waitingUser.socketId \notin reported
    /\ waitingUser.preferences.language = value.language
    /\ Elems(waitingUser.preferences.tags) \cap Elems(value.tags) # {}
    /\ waitingUser.isVideoChat = isVideoChat

\* C18: a findChat processed while the Waiting Queue holds at least one
\* eligible candidate (another session, not blocked, same language, at least
\* one shared tag, same chat mode) ends with the requester paired: the matched
\* entry is removed from the Waiting Queue, the requester is not enqueued, and
\* the requester receives chatFound rather than `waiting`.
C18_EligibleIsPaired ==
    [][(/\ last'.op = "findChat"
        /\ ~Malformed(last'.preferences)
        /\ \E i \in 1..Len(waitingUsers) :
              Eligible(waitingUsers[i], last'.from, last'.preferences.value,
                       last'.isVideoChat, reportedUsers)) =>
          LET R == last'.from
              M == last'.match.socketId
          IN /\ M # None
             /\ (IF last'.isVideoChat THEN videoChatPairs' ELSE chatPairs')[R] = M
             /\ \E i \in 1..Len(waitingUsers) : waitingUsers[i] = last'.match
             /\ \A i \in 1..Len(waitingUsers') : waitingUsers'[i].socketId \notin {R, M}
             /\ Delivered(out', R, "chatFound") = 1
             /\ Delivered(out', R, "waiting") = 0]_vars

\* a findChat paired its sender with a waiting session of its own chat mode
\* and of another age group, and took that session out of a queue where
\* others still wait
C18_Witness ==
    /\ Paired
    /\ last.match.isVideoChat = last.isVideoChat
    /\ last.match.preferences.ageGroup # last.preferences.value.ageGroup
    /\ ~InQueue(last.match.socketId)
    /\ Len(waitingUsers) > 0

\* C19: full unpair: after a next, report or disconnect by session A is
\* processed, neither pairing table (text or video) contains A as a key or as
\* another session's partner, even when A held pairings under both modes or
\* another session still pointed at A.
C19_FullUnpair ==
    last.op \in SeverOps =>
        /\ chatPairs[last.from] = None
        /\ videoChatPairs[last.from] = None
        /\ \A b \in Sessions : chatPairs[b] # last.from /\ videoChatPairs[b] # last.from

InQueueOf(queue, s) == \E i \in 1..Len(queue) : queue[i].socketId = s

\* the entries of `queue` that belong to neither of the two sessions
EntriesOfOthers(queue, R, M) ==
    SelectSeq(queue, LAMBDA waitingUser : waitingUser.socketId \notin {R, M})

\* C20: atomic matching: under every interleaving of findChat requests, a
\* waiting entry is consumed by at most one requester, so two requesters are
\* never both paired with the same waiting session, and no session is
\* enqueued by its own findChat and matched by another findChat as part of
\* the same step. One findChat either consumes the one entry it matched,
\* which no later request can find again, or enqueues its sender and pairs
\* nobody; the entries of all other sessions stay as they were.
C20_AtomicMatching ==
    [][(last'.op = "findChat" /\ ~Malformed(last'.preferences)) =>
          LET R == last'.from
              M == last'.match.socketId
          IN /\ EntriesOfOthers(waitingUsers', R, M) = EntriesOfOthers(waitingUsers, R, M)
             /\ IF M # None
                THEN /\ M # R
                     /\ InQueueOf(waitingUsers, M)
                     /\ ~InQueueOf(waitingUsers', M)
                     /\ ~InQueueOf(waitingUsers', R)
                ELSE /\ InQueueOf(waitingUsers', R)
                     /\ chatPairs' = chatPairs
                     /\ videoChatPairs' = videoChatPairs]_vars

\* a findChat found nobody and enqueued its sender after an earlier findChat
\* had consumed a waiting entry and paired two other sessions
C20_Witness ==
    /\ last.op = "findChat"
    /\ ~Malformed(last.preferences)
    /\ last.match.socketId = None
    /\ InQueue(last.from)
    /\ \E a, b \in Sessions \ {last.from} :
          /\ chatPairs[a] = b /\ chatPairs[b] = a
          /\ ~InQueue(a) /\ ~InQueue(b)

\* findBestMatch has just been applied to the waiting list
BestCalled == last.op = "findBestMatch"

CommonCount(user, waitingUser) ==
    Cardinality(Elems(user.preferences.tags) \cap Elems(waitingUser.preferences.tags))

AgeGroupMatch(user, waitingUser) ==
    waitingUser.preferences.ageGroup = user.preferences.ageGroup

\* the positions in the Waiting Queue of the candidates eligible for `user`
EligibleFor(user) ==
    {i \in 1..Len(waitingUsers) :
        Eligible(waitingUsers[i], user.socketId, user.preferences, user.isVideoChat,
                 reportedUsers)}

\* the eligible candidates with the largest number of common tags
TopEligible(user) ==
    {i \in EligibleFor(user) :
        \A j \in EligibleFor(user) :
            CommonCount(user, waitingUsers[i]) >= CommonCount(user, waitingUsers[j])}

\* C21: best match by tag overlap: the candidate returned by the Matchmaker
\* is an eligible candidate and has the largest number of tags in common with
\* the requester among all eligible candidates in the Waiting Queue.
C21_BestByOverlap ==
    (BestCalled /\ last.match.socketId # None) =>
        \E i \in TopEligible(last.user) : waitingUsers[i] = last.match

\* C22: age-group tie-break: among the eligible candidates that tie on the
\* maximum number of common tags, if at least one has the requester's
\* ageGroup, then the returned candidate has the requester's ageGroup.
C22_AgeTieBreak ==
    (/\ BestCalled
     /\ \E i \in TopEligible(last.user) : AgeGroupMatch(last.user, waitingUsers[i])) =>
        /\ last.match.socketId # None
        /\ AgeGroupMatch(last.user, last.match)

\* C23: stable selection: among the eligible candidates that tie on both
\* common-tag count and age-group match, the one that was enqueued earliest
\* is returned (the choice itself is a function of the queue, the Block List
\* and the requester).
C23_StableSelection ==
    (BestCalled /\ last.match.socketId # None) =>
        \A i \in EligibleFor(last.user) :
            (/\ CommonCount(last.user, waitingUsers[i]) = CommonCount(last.user, last.match)
             /\ AgeGroupMatch(last.user, waitingUsers[i]) = AgeGroupMatch(last.user, last.match))
                => findIndex(waitingUsers, last.match.socketId) <= i

\* C24: a findChat with valid preferences that finds no eligible candidate
\* appends the requester to the tail of the Waiting Queue exactly once, sends
\* the requester exactly one `waiting` event and no event to any other
\* session, and leaves both pairing tables and the Block List unchanged.
C24_NoMatchEnqueues ==
    [][(/\ last'.op = "findChat"
        /\ ~Malformed(last'.preferences)
        /\ \A i \in 1..Len(waitingUsers) :
              ~Eligible(waitingUsers[i], last'.from, last'.preferences.value,
                        last'.isVideoChat, reportedUsers)) =>
          LET R == last'.from
              n == Len(waitingUsers')
          IN /\ n > 0
             /\ waitingUsers'[n] = [socketId |-> R,
                                    preferences |-> last'.preferences.value,
                                    isVideoChat |-> last'.isVideoChat]
             /\ \A i \in 1..(n - 1) : waitingUsers'[i].socketId # R
             /\ SubSeq(waitingUsers', 1, n - 1) = EntriesOfOthers(waitingUsers, R, R)
             /\ out' = <<[to |-> R, ev |-> "waiting", from |-> None, payload |-> <<>>]>>
             /\ chatPairs' = chatPairs
             /\ videoChatPairs' = videoChatPairs
             /\ reportedUsers' = reportedUsers]_vars

\* C25: a message event from a session that has no text-mode partner (never
\* paired, pairing already ended, or paired only in video mode) is dropped
\* silently: no event is delivered to any session, including the sender, and
\* no shared state changes.
C25_MessageDropped ==
    [][(last'.op = "message" /\ chatPairs[last'.from] = None) =>
          (out' = <<>> /\ shared' = shared)]_vars

\* a message was dropped whose sender is paired in video mode only, with a
\* partner that is connected
C25_Witness ==
    /\ last.op = "message"
    /\ chatPairs[last.from] = None
    /\ videoChatPairs[last.from] # None
    /\ conn[videoChatPairs[last.from]] = "live"
    /\ out = <<>>

\* C26: a report from a session that has no partner is a no-op: the Block
\* List, Waiting Queue and both pairing tables are unchanged and no event is
\* delivered to any session.
C26_ReportNoPartner ==
    [][(/\ last'.op = "report"
        /\ chatPairs[last'.from] = None
        /\ videoChatPairs[last'.from] = None) =>
          (shared' = shared /\ out' = <<>>)]_vars

\* a session that is waiting, and has no partner, sent a report
C26_Witness ==
    /\ last.op = "report"
    /\ last.partner = None
    /\ InQueue(last.from)
    /\ out = <<>>

\* the session is neither in the Waiting Queue nor paired
Unmatched(queue, text, video, b) ==
    ~InQueueOf(queue, b) /\ text[b] = None /\ video[b] = None

\* C27: the former partner is not auto-requeued: after A's next, report or
\* disconnect severs the pairing with B, B is neither in the Waiting Queue
\* nor paired until B itself issues a findChat.
C27_NoAutoRequeue ==
    [][/\ last'.op \in SeverOps =>
             \A B \in Sessions :
                 (\/ (chatPairs[last'.from] = B /\ chatPairs[B] = last'.from
                          /\ chatPairs'[last'.from] # B)
                  \/ (videoChatPairs[last'.from] = B /\ videoChatPairs[B] = last'.from
                          /\ videoChatPairs'[last'.from] # B))
                     => Unmatched(waitingUsers', chatPairs', videoChatPairs', B)
       /\ \A b \in Sessions :
             (/\ Unmatched(waitingUsers, chatPairs, videoChatPairs, b)
              /\ ~Unmatched(waitingUsers', chatPairs', videoChatPairs', b))
                 => (last'.op = "findChat" /\ last'.from = b)]_vars

\* C28: blocking excludes a session only as a candidate, not as a requester:
\* a session in the Block List that issues findChat while an eligible
\* unblocked candidate is waiting is paired with a candidate by that findChat.
C28_BlockedRequesterPaired ==
    [][(/\ last'.op = "findChat"
        /\ ~Malformed(last'.preferences)
        /\ last'.from \in reportedUsers
        /\ \E i \in 1..Len(waitingUsers) :
              Eligible(waitingUsers[i], last'.from, last'.preferences.value,
                       last'.isVideoChat, reportedUsers)) =>
          /\ last'.match.socketId # None
          /\ last'.match.socketId \notin reportedUsers
          /\ InQueueOf(waitingUsers, last'.match.socketId)
          /\ (IF last'.isVideoChat THEN videoChatPairs' ELSE chatPairs')[last'.from]
                = last'.match.socketId
          /\ (IF last'.isVideoChat THEN videoChatPairs' ELSE chatPairs')[last'.match.socketId]
                = last'.from
          /\ last'.from \in reportedUsers']_vars

\* a reported session sent findChat and was paired with a waiting session of
\* its own chat mode
C28_Witness ==
    /\ Paired
    /\ last.from \in reportedUsers
    /\ last.from \in reportedLive
    /\ last.match.isVideoChat = last.isVideoChat
    /\ chatPairs[last.from] = last.match.socketId \/ videoChatPairs[last.from] = last.match.socketId

\* C30: moderation idempotence: for every message text, filterMessage applied
\* to a text with no banned word returns it unchanged, and
\* filterMessage(filterMessage(text)) equals filterMessage(text).
C30_FilterIdempotent ==
    last.op = "filterMessage" =>
        /\ (\A k \in 1..Len(BANNED_WORDS) :
                ~includes(toLowerCase(last.message), BANNED_WORDS[k]))
              => last.once = last.message
        /\ last.twice = last.once

\* a message was changed by the filter and what the filter returned is still
\* flagged by containsBannedWords
C30_Witness ==
    /\ last.op = "filterMessage"
    /\ last.once # last.message
    /\ containsBannedWords(last.once)
    /\ last.twice = last.once

C31_NoBannedWordDelivered ==
    last.op = "filterMessage" =>
        /\ \A k \in 1..Len(BANNED_WORDS) :
               ~includes(toLowerCase(last.once), BANNED_WORDS[k])
        /\ containsBannedWords(last.message) => last.once # last.message

\* C32: waiting and paired are exclusive: in every reachable state no session
\* is at the same time in the Waiting Queue and recorded with a partner in
\* either pairing table, including after a paired session issues findChat.
C32_WaitingXorPaired ==
    \A s \in Sessions :
        ~(InQueueOf(waitingUsers, s)
            /\ (chatPairs[s] # None \/ videoChatPairs[s] # None))

\* C33: one mode at a time: in every reachable state no session has a partner
\* in the text pairing table and a partner in the video pairing table.
C33_OneModeAtATime ==
    \A s \in Sessions : ~(chatPairs[s] # None /\ videoChatPairs[s] # None)

\* C34: messages reach only a mutual partner: a `message` event is delivered
\* to session X from sender S only if, when the server delivers it, X's own
\* text partner is S; a session chatting with one partner never receives
\* text from a different session. (The message handler changes no table,
\* so the tables after the handler are the tables at the delivery.)
C34_MessageToMutualPartner ==
    last.op = "message" =>
        \A i \in 1..Len(out) :
            out[i].ev = "message" => chatPairs[out[i].to] = last.from

\* two entries of the Waiting Queue that could have been paired with each other
CouldPair(a, b) ==
    /\ a.isVideoChat = b.isVideoChat
    /\ a.preferences.language = b.preferences.language
    /\ Elems(a.preferences.tags) \cap Elems(b.preferences.tags) # {}

\* C35: no missed match: in every reachable state the Waiting Queue never
\* contains two distinct entries that are both outside the Block List, request
\* the same chat mode, have the same language and share at least one tag.
C35_NoMissedMatch ==
    \A i, j \in 1..Len(waitingUsers) :
        (/\ i # j
         /\ waitingUsers[i].socketId \notin reportedUsers
         /\ waitingUsers[j].socketId \notin reportedUsers)
            => ~CouldPair(waitingUsers[i], waitingUsers[j])

\* a findChat has just enqueued its sender behind an entry it could have been
\* paired with, had that entry not been in the Block List
C35_Witness ==
    /\ last.op = "findChat"
    /\ ~Malformed(last.preferences)
    /\ ~Paired
    /\ last.from \notin reportedUsers
    /\ \E i, j \in 1..Len(waitingUsers) :
          /\ i < j
          /\ waitingUsers[j].socketId = last.from
          /\ waitingUsers[i].socketId \in reportedUsers
          /\ CouldPair(waitingUsers[i], waitingUsers[j])

\* C36: shared state refers only to live sessions: in every reachable state
\* every session id in the Block List, and every session id that is a partner
\* value in either pairing table, belongs to a session that has not
\* disconnected.
C36_OnlyLiveSessions ==
    /\ \A b \in reportedUsers : conn[b] # "closed"
    /\ \A s \in Sessions :
          /\ chatPairs[s] # None => conn[chatPairs[s]] # "closed"
          /\ videoChatPairs[s] # None => conn[videoChatPairs[s]] # "closed"

\* C37: client and server agree on being in a chat: whenever the server
\* removes a session's pairing (by its own next or report, or by the
\* partner's next, report or disconnect), its client eventually leaves the
\* 'chatting' status, so a client never stays in 'chatting', able to send
\* messages, while the server holds no pairing for it. Only an event from
\* the server or the closing of the connection changes `status`: a handler
\* that removes the pairing of a connected client which is in 'chatting'
\* and has nothing on its way must send that client an event.
C37_ClientServerAgree ==
    [][\A b \in DOMAIN status :
          (/\ status[b] = "chatting"
           /\ inbox[b] = <<>>
           /\ partnerOf(b) # None
           /\ chatPairs'[b] = None /\ videoChatPairs'[b] = None
           /\ conn'[b] = "live")
              => \E i \in 1..Len(inbox'[b]) :
                    setStatus("chatting", inbox'[b][i].ev) # "chatting"]_vars

\* C38: single initiator: for two paired video clients with distinct session
\* ids, exactly one of them (the one whose session id compares lower) creates
\* and sends an offer when negotiation is needed, and the other sends none,
\* so the two sides never both send offers to each other.
C38_SingleInitiator ==
    [][/\ \A c \in VideoClients :
            LET p == peers[c]
                q == peers'[c]
                lower == LessThan(p.socketId, p.partnerId)
            IN /\ q.offers > p.offers => lower
               /\ (q.negotiations > p.negotiations /\ ~p.negotiationInProgress)
                     => (q.negotiationInProgress <=> lower)
               /\ (p.negotiationInProgress /\ ~q.negotiationInProgress)
                     => /\ q.offers = p.offers + 1
                        /\ \E t \in VideoClients \ {c} :
                              /\ Len(signal'[t]) = Len(signal[t]) + 1
                              /\ signal'[t][Len(signal'[t])].ev = "offer"
                              /\ signal'[t][Len(signal'[t])].from = p.socketId
       /\ ~(\A c \in VideoClients : peers'[c].offers > 0)]_vars

\* negotiation was needed on both sides: the client with the lower id has
\* sent an offer and the other one has let its negotiationneeded event pass
C38_Witness ==
    \E c, d \in VideoClients :
        /\ c # d
        /\ LessThan(peers[c].socketId, peers[d].socketId)
        /\ peers[c].offers > 0
        /\ peers[d].negotiations > 0
        /\ peers[d].offers = 0
        /\ ~peers[d].negotiationInProgress

\* C39: no ICE candidate is lost: every ice-candidate received from the
\* current partner, on the initiator and on the responder alike, is
\* eventually added to the peer connection once a remote description has
\* been set, including the candidates that arrived before the remote
\* description and were stored as pending. Stored candidates are added only
\* by the listener that sets the remote description, so once that listener
\* is through, every candidate received so far has been added.
C39_NoCandidateLost ==
    \A c \in VideoClients :
        (peers[c].remoteDescription /\ peers[c].settingRemote = "none")
            => peers[c].received \subseteq peers[c].added
====
